---- MODULE Spec2Model ----
(***************************************************************************)
(* A model of pf_xarray/io.py: the Parflow Binary (PFB) reader.            *)
(*                                                                         *)
(* A file is a sequence of 4-byte units (every field of the format is 4 or *)
(* 8 bytes wide and every offset the reader computes is a multiple of 4).  *)
(* Dense arrays are records [shape, data] with the data in column-major    *)
(* order, 0-based: cell [i,j,k] is data[i + sx*j + sx*sy*k].               *)
(***************************************************************************)
EXTENDS Integers, Sequences, FiniteSets, TLC

VARIABLES
    file,        \* the bytes on disk, as a sequence of 4-byte units
    written,     \* what the writer of `file` used: extents, partition, truncation
    pfb,         \* the caller's ParflowBinary object (its fields), or none yet
    open_files,  \* number of OS file objects opened and not yet closed
    last         \* the outcome of the most recent call

vars == <<file, written, pfb, open_files, last>>

\* ------------------------------------------------------------ bounds
\* Grid extents of the files on disk (specification Spec).
MaxNx == 4
MaxNy == 3
MaxNz == 2
\* Grid extents of the headers handed to the constructor (specification SpecGeom).
GeomMaxX == 10
GeomMaxY == 10
GeomMaxZ == 3
\* Partition counts per axis of those headers.
GeomMaxParts == 3
\* Cap on the number of leaked file objects the model keeps counting.
MaxOpenFiles == 2

\* ------------------------------------------------------------ format constants
GlobalHeaderBytes == 64
SubgridHeaderBytes == 36
DoubleBytes == 8
UnitBytes == 4

\* ------------------------------------------------------------ arithmetic helpers
Max(a, b) == IF a >= b THEN a ELSE b
Min(a, b) == IF a <= b THEN a ELSE b

\* int(np.ceil(a / b)) for a >= 0, b > 0
CeilDiv(a, b) == (a + b - 1) \div b

Prod3(t) == t[1] * t[2] * t[3]

\* ------------------------------------------------------------ geometry (io.py 278-349)
get_maingrid_and_remainder(nx, ny, nz, p, q, r) ==
    <<CeilDiv(nx, p), CeilDiv(ny, q), CeilDiv(nz, r), nx % p, ny % q, nz % r>>

get_subgrid_loc(sel_subgrid, p, q, r) ==
    LET rr == sel_subgrid \div (p * q)
        qq == (sel_subgrid - (rr * p * q)) \div p
        pp == sel_subgrid - rr * (p * q) - (qq * p)
    IN  <<pp, qq, rr>>

subgrid_lower_left(nnx, nny, nnz, pp, qq, rr, lx, ly, lz) ==
    <<Max(0, pp * (nnx - 1) + Min(pp, lx)),
      Max(0, qq * (nny - 1) + Min(qq, ly)),
      Max(0, rr * (nnz - 1) + Min(rr, lz))>>

subgrid_size(nnx, nny, nnz, pp, qq, rr, lx, ly, lz) ==
    <<IF pp >= Max(lx, 1) THEN nnx - 1 ELSE nnx,
      IF qq >= Max(ly, 1) THEN nny - 1 ELSE nny,
      IF rr >= Max(lz, 1) THEN nnz - 1 ELSE nnz>>

\* The loop body's geometry for subgrid sg_num (lines 332-348).
SubgridLocOf(sg_num, p, q, r) == get_subgrid_loc(sg_num, p, q, r)

SubgridStartOf(sg_num, nx, ny, nz, p, q, r) ==
    LET m == get_maingrid_and_remainder(nx, ny, nz, p, q, r)
        l == get_subgrid_loc(sg_num, p, q, r)
    IN  subgrid_lower_left(m[1], m[2], m[3], l[1], l[2], l[3], m[4], m[5], m[6])

SubgridShapeOf(sg_num, nx, ny, nz, p, q, r) ==
    LET m == get_maingrid_and_remainder(nx, ny, nz, p, q, r)
        l == get_subgrid_loc(sg_num, p, q, r)
    IN  subgrid_size(m[1], m[2], m[3], l[1], l[2], l[3], m[4], m[5], m[6])

\* Faulty variant of NextOffset: the 36-byte local header is not skipped.
NextOffsetNoHeader(off, prev_shape) == off + (DoubleBytes * Prod3(prev_shape))

\* Line 329: off += 36 + (8 * (snx * sny * snz)), with the previous shape.
NextOffset(off, prev_shape) ==
    off + SubgridHeaderBytes + (DoubleBytes * Prod3(prev_shape))

\* The loop of lines 327-348 from subgrid sg_num on, entered with the running
\* offset off and the previous shape prev_shape: the rows
\* <<offset, loc, begin_idx, shape>> it appends, in order.
RECURSIVE PrecalculateLoop(_, _, _, _, _, _, _, _, _, _)
PrecalculateLoop(sg_num, off, prev_shape, nx, ny, nz, p, q, r, n_subgrids) ==
    IF sg_num >= n_subgrids THEN <<>>
    ELSE CHOOSE rows \in
           {<< <<o, SubgridLocOf(sg_num, p, q, r),
                 SubgridStartOf(sg_num, nx, ny, nz, p, q, r), sh>> >>
            \o PrecalculateLoop(sg_num + 1, o, sh, nx, ny, nz, p, q, r, n_subgrids) :
              o \in {NextOffset(off, prev_shape)},
              sh \in {SubgridShapeOf(sg_num, nx, ny, nz, p, q, r)}} : TRUE

\* The four lists returned, as 0-based functions of the subgrid index.
RowsToLists(rows) ==
    LET S == 0 .. (Len(rows) - 1)
    IN  [subgrid_offsets |-> [s \in S |-> rows[s + 1][1]],
         subgrid_locs |-> [s \in S |-> rows[s + 1][2]],
         subgrid_begin_idxs |-> [s \in S |-> rows[s + 1][3]],
         subgrid_shapes |-> [s \in S |-> rows[s + 1][4]]]

\* Lines 325-326: snx, sny, snz = 0, 0, 0 and off = 64 before the loop.
precalculate_subgrid_info(nx, ny, nz, p, q, r, n_subgrids) ==
    CHOOSE t \in {RowsToLists(rows) : rows \in
        {PrecalculateLoop(0, GlobalHeaderBytes, <<0, 0, 0>>,
                          nx, ny, nz, p, q, r, n_subgrids)}} : TRUE

\* ------------------------------------------------------------ the file on disk
\* One 4-byte unit: a big-endian int32, or the high or low half of a
\* big-endian float64.
IntUnit(v) == <<"i32", v>>
DoubleUnits(v) == << <<"dhi", v>>, <<"dlo", v>> >>

\* Shape policy of the writer (spec section 4.2): positions below the
\* remainder hold base cells, the others base - 1; base everywhere when the
\* division is even.
PolicyShape(extent, parts, k) ==
    LET base == CeilDiv(extent, parts)
        rem == extent % parts
    IN  IF rem = 0 \/ k < rem THEN base ELSE base - 1

RECURSIVE PolicyStart(_, _, _)
PolicyStart(extent, parts, k) ==
    IF k = 0 THEN 0
    ELSE PolicyStart(extent, parts, k - 1) + PolicyShape(extent, parts, k - 1)

\* Partition location of the tile the writer puts at linear index s.
WriterLoc(w, s) == <<s % w.P, (s \div w.P) % w.Q, s \div (w.P * w.Q)>>

WriterShape(w, s) ==
    LET l == WriterLoc(w, s)
    IN  <<PolicyShape(w.nx, w.P, l[1]), PolicyShape(w.ny, w.Q, l[2]),
          PolicyShape(w.nz, w.R, l[3])>>

WriterStart(w, s) ==
    LET l == WriterLoc(w, s)
    IN  <<PolicyStart(w.nx, w.P, l[1]), PolicyStart(w.ny, w.Q, l[2]),
          PolicyStart(w.nz, w.R, l[3])>>

\* The input array: cell (x,y,z) holds a value of its own, so that a cell
\* read from the wrong place is seen.
CellValue(w, x, y, z) == 1 + x + (w.nx * y) + (w.nx * w.ny * z)

InputArray(w) ==
    [shape |-> <<w.nx, w.ny, w.nz>>,
     data |-> [c \in 0 .. (w.nx * w.ny * w.nz - 1) |-> c + 1]]

\* 64-byte global header (read_header, lines 95-108).
GlobalHeaderUnits(w) ==
    DoubleUnits(0) \o DoubleUnits(0) \o DoubleUnits(0)
    \o <<IntUnit(w.nx), IntUnit(w.ny), IntUnit(w.nz)>>
    \o DoubleUnits(1) \o DoubleUnits(1) \o DoubleUnits(1)
    \o <<IntUnit(w.P * w.Q * w.R)>>

\* 36-byte local header (read_subgrid_header, lines 110-123).
SubgridHeaderUnits(w, s) ==
    LET st == WriterStart(w, s)
        sh == WriterShape(w, s)
    IN  <<IntUnit(st[1]), IntUnit(st[2]), IntUnit(st[3]),
          IntUnit(sh[1]), IntUnit(sh[2]), IntUnit(sh[3]),
          IntUnit(1), IntUnit(1), IntUnit(1)>>

\* Payload of tile s: its cells, x fastest, two units per value.
RECURSIVE PayloadUnits(_, _, _)
PayloadUnits(w, s, c) ==
    LET st == WriterStart(w, s)
        sh == WriterShape(w, s)
        x == st[1] + (c % sh[1])
        y == st[2] + ((c \div sh[1]) % sh[2])
        z == st[3] + (c \div (sh[1] * sh[2]))
    IN  IF c >= Prod3(sh) THEN <<>>
        ELSE DoubleUnits(CellValue(w, x, y, z)) \o PayloadUnits(w, s, c + 1)

RECURSIVE TilesUnits(_, _)
TilesUnits(w, s) ==
    IF s >= w.P * w.Q * w.R THEN <<>>
    ELSE SubgridHeaderUnits(w, s) \o PayloadUnits(w, s, 0) \o TilesUnits(w, s + 1)

BuildFile(w) ==
    LET full == GlobalHeaderUnits(w) \o TilesUnits(w, 0)
    IN  IF w.cut = 0 THEN full ELSE SubSeq(full, 1, Min(w.cut, Len(full)))

\* ------------------------------------------------------------ reading the file
\* struct.unpack('>i', f.read(4)) at 0-based unit u (a read past the end
\* returns short and unpack raises; the callers test UnitsAvailable first).
ReadInt(f, u) == f[u + 1][2]

UnitsAvailable(f, u, n) == u + n <= Len(f)

\* One float64 from units u, u+1: the value when they are the two halves of
\* one stored value; otherwise the bytes are some other bit pattern, which the
\* model names by where it was read (a negative number, never a cell value).
DecodeDouble(f, u) ==
    IF f[u + 1][1] = "dhi" /\ f[u + 2][1] = "dlo" /\ f[u + 1][2] = f[u + 2][2]
    THEN f[u + 1][2]
    ELSE 0 - (u + 1)

\* read_header: the fields the reader uses later.
read_header(f) ==
    [nx |-> ReadInt(f, 6), ny |-> ReadInt(f, 7), nz |-> ReadInt(f, 8),
     n_subgrids |-> ReadInt(f, 15)]

\* read_subgrid_header(skip_bytes): the shape fields.
read_subgrid_header(f, skip_bytes) ==
    LET u == skip_bytes \div UnitBytes
    IN  [nx |-> ReadInt(f, u + 3), ny |-> ReadInt(f, u + 4), nz |-> ReadInt(f, u + 5)]

\* int((a / b) + eps) with eps = 1 - 1e-6, in exact arithmetic (lines 50-54).
IntWithEps(a, b) == ((a * 1000000) + (b * 999999)) \div (b * 1000000)

\* np.arange(lo, hi)
Arange(lo, hi) == [i \in 1 .. Max(hi - lo, 0) |-> lo + i - 1]

\* shapes[:, axis][0:stop:step] of the n rows of shapes, as a sequence.
AxisSlice(shapes, axis, n, stop, step) ==
    LET m == Min(stop, n)
        cnt == IF m <= 0 THEN 0 ELSE CeilDiv(m, step)
    IN  [i \in 1 .. cnt |-> shapes[(i - 1) * step][axis]]

_compute_chunks(hdr, shapes) ==
    LET n == Cardinality(DOMAIN shapes)
    IN  [x |-> AxisSlice(shapes, 1, n, hdr.p, 1),
         y |-> AxisSlice(shapes, 2, n, hdr.p * hdr.q, hdr.p),
         z |-> AxisSlice(shapes, 3, n, hdr.p * hdr.q * hdr.r, hdr.p * hdr.q)]

RECURSIVE ChunkStart(_, _)
ChunkStart(ch, i) == IF i = 1 THEN 0 ELSE ChunkStart(ch, i - 1) + ch[i - 1]

CoordsOf(ch) ==
    [i \in 1 .. Len(ch) |-> Arange(ChunkStart(ch, i), ChunkStart(ch, i) + ch[i])]

_compute_coords(chunks) ==
    [x |-> CoordsOf(chunks.x), y |-> CoordsOf(chunks.y), z |-> CoordsOf(chunks.z)]

\* The object before compute_subgrid_info has run: the table attributes do
\* not exist (attrs lists the attributes that are set).
BareObject(hdr) ==
    [exists |-> TRUE, f_open |-> TRUE, attrs |-> {"f", "header"}, header |-> hdr,
     subgrid_offsets |-> <<>>, subgrid_locations |-> <<>>,
     subgrid_start_indices |-> <<>>, subgrid_shapes |-> <<>>,
     chunks |-> [x |-> <<>>, y |-> <<>>, z |-> <<>>],
     coords |-> [x |-> <<>>, y |-> <<>>, z |-> <<>>]]

NoHeader == [nx |-> 0, ny |-> 0, nz |-> 0, n_subgrids |-> 0, p |-> 0, q |-> 0, r |-> 0]

NoObject == [BareObject(NoHeader) EXCEPT !.exists = FALSE, !.f_open = FALSE, !.attrs = {}]

TableAttrs ==
    {"subgrid_offsets", "subgrid_locations", "subgrid_start_indices", "subgrid_shapes"}

\* Lines 72-77: the attributes set from the four lists t.
StoreSubgridInfo(obj, t) ==
    [obj EXCEPT !.attrs = @ \cup TableAttrs \cup {"chunks", "coords"},
                !.subgrid_offsets = t.subgrid_offsets,
                !.subgrid_locations = t.subgrid_locs,
                !.subgrid_start_indices = t.subgrid_begin_idxs,
                !.subgrid_shapes = t.subgrid_shapes,
                !.chunks = _compute_chunks(obj.header, t.subgrid_shapes),
                !.coords = _compute_coords(_compute_chunks(obj.header, t.subgrid_shapes))]

compute_subgrid_info(obj) ==
    LET h == obj.header
    IN  CHOOSE o \in {StoreSubgridInfo(obj, t) : t \in
            {precalculate_subgrid_info(h.nx, h.ny, h.nz, h.p, h.q, h.r, h.n_subgrids)}} :
            TRUE

\* Lines 48-54: p, q, r from the first subgrid header.
DerivePQR(hdr, first) ==
    [hdr EXCEPT !.p = IntWithEps(hdr.nx, first.nx),
                !.q = IntWithEps(hdr.ny, first.ny),
                !.r = IntWithEps(hdr.nz, first.nz)]

\* ParflowBinary(file) with no p, q, r and no header: [err, obj]. The file
\* object is open from line 39 on, whatever happens afterwards.
ConstructFromFile(f) ==
    IF ~UnitsAvailable(f, 0, GlobalHeaderBytes \div UnitBytes)
    THEN [err |-> "struct.error", obj |-> NoObject]
    ELSE IF ~UnitsAvailable(f, GlobalHeaderBytes \div UnitBytes,
                            SubgridHeaderBytes \div UnitBytes)
    THEN [err |-> "struct.error", obj |-> NoObject]
    ELSE LET h0 == read_header(f)
             first == read_subgrid_header(f, GlobalHeaderBytes)
         IN  IF first.nx = 0 \/ first.ny = 0 \/ first.nz = 0
             THEN [err |-> "ZeroDivisionError", obj |-> NoObject]
             ELSE [err |-> "none",
                   obj |-> compute_subgrid_info(BareObject(
                       DerivePQR(h0 @@ [p |-> 0, q |-> 0, r |-> 0], first)))]

\* ParflowBinary(file, precompute_subgrid_info, header=hdr) with a header
\* that carries non-zero p, q, r: nothing is read from the file.
ConstructWithHeader(hdr, precompute_subgrid_info) ==
    IF precompute_subgrid_info
    THEN [err |-> "none", obj |-> compute_subgrid_info(BareObject(hdr))]
    ELSE [err |-> "none", obj |-> BareObject(hdr)]

\* ------------------------------------------------------------ decoding tiles
Cells(shape) == Prod3(shape)

EmptyArray == [shape |-> <<0, 0, 0>>, data |-> <<>>]

SetMin(S) == CHOOSE m \in S : \A x \in S : m <= x
SetMax(S) == CHOOSE m \in S : \A x \in S : x <= m

\* _backend_iloc_subgrid: np.memmap(f, float64, 'r', offset, shape, order='F')
\* then byteswap. The map fails on a closed file and when offset + 8*cells
\* lies beyond the end of the file.
_backend_iloc_subgrid(obj, f, offset, shape) ==
    IF ~obj.f_open THEN [err |-> "ValueError", value |-> EmptyArray]
    ELSE IF offset + (DoubleBytes * Cells(shape)) > UnitBytes * Len(f)
    THEN [err |-> "ValueError", value |-> EmptyArray]
    ELSE [err |-> "none",
          value |-> [shape |-> shape,
                     data |-> [c \in 0 .. (Cells(shape) - 1) |->
                        DecodeDouble(f, (offset \div UnitBytes) + (2 * c))]]]

\* Faulty variant of iloc_subgrid: the tile is read from the start of its local
\* header instead of from its payload.
iloc_subgrid_at_header(obj, f, idx) ==
    IF "subgrid_offsets" \notin obj.attrs \/ idx \notin DOMAIN obj.subgrid_offsets
    THEN [err |-> "IndexError", value |-> EmptyArray]
    ELSE _backend_iloc_subgrid(obj, f, obj.subgrid_offsets[idx] - SubgridHeaderBytes,
                               obj.subgrid_shapes[idx])

iloc_subgrid(obj, f, idx) ==
    IF "subgrid_offsets" \notin obj.attrs \/ idx \notin DOMAIN obj.subgrid_offsets
    THEN [err |-> "IndexError", value |-> EmptyArray]
    ELSE _backend_iloc_subgrid(obj, f, obj.subgrid_offsets[idx], obj.subgrid_shapes[idx])

\* Lines 242-243, 249-254: what iloc_subgrid(idx) asks of np.memmap: the
\* byte offset the map starts at and the number of float64 values mapped.
MemmapRequest(obj, idx) ==
    [offset |-> obj.subgrid_offsets[idx], count |-> Cells(obj.subgrid_shapes[idx])]

\* Line 238: subgrid_idx = pp + (p * qq) + (q * rr).
LocIndex(hdr, pp, qq, rr) == pp + (hdr.p * qq) + (hdr.q * rr)

loc_subgrid(obj, f, pp, qq, rr) == iloc_subgrid(obj, f, LocIndex(obj.header, pp, qq, rr))

\* Lines 56-57: the calls of precalculate_subgrid_info one construction
\* makes.
PrecalcCalls(precompute_subgrid_info) == IF precompute_subgrid_info THEN 1 ELSE 0

\* ------------------------------------------------------------ numpy arrays
\* Linear (column-major) index of cell (x,y,z) in an array of shape sh, and
\* the coordinates of linear index c.
Lin(sh, x, y, z) == x + (sh[1] * y) + (sh[1] * sh[2] * z)
Coord(sh, c) == <<c % sh[1], (c \div sh[1]) % sh[2], c \div (sh[1] * sh[2])>>

\* Python's reading of one bound of a slice on an axis of n cells.
SliceBound(v, n) == IF v < 0 THEN Max(v + n, 0) ELSE Min(v, n)
\* First index and length of a[lo:hi] on an axis of n cells.
SliceStart(lo, hi, n) == SliceBound(lo, n)
SliceLen(lo, hi, n) == Max(SliceBound(hi, n) - SliceBound(lo, n), 0)

\* arr[x0:x0+dx, y0:y0+dy, z0:z0+dz] = tile, for a tile of shape ts put at
\* start in an array of shape sh. numpy raises when the tile does not
\* broadcast to the slice (an axis where the slice is shorter than the tile
\* and the tile is not 1 long); a tile axis of length 1 broadcasts to an empty
\* slice, and then nothing is written.
BlockLen(sh, start, ts) ==
    [a \in 1 .. 3 |-> SliceLen(start[a], start[a] + ts[a], sh[a])]
BlockLo(sh, start, ts) ==
    [a \in 1 .. 3 |-> SliceStart(start[a], start[a] + ts[a], sh[a])]
BlockBad(sh, start, ts) ==
    \E a \in 1 .. 3 : BlockLen(sh, start, ts)[a] # ts[a] /\ ts[a] # 1
BlockWhole(sh, start, ts) ==
    \A a \in 1 .. 3 : BlockLen(sh, start, ts)[a] = ts[a]
\* Whether the assignment writes cell xyz of the array.
BlockCovers(sh, start, ts, xyz) ==
    /\ BlockWhole(sh, start, ts)
    /\ \A a \in 1 .. 3 :
         /\ xyz[a] >= BlockLo(sh, start, ts)[a]
         /\ xyz[a] < BlockLo(sh, start, ts)[a] + ts[a]

\* The loops of lines 272-275 and 188-200: into np.empty(sh), whose cells
\* hold fill, the tiles order[1], order[2], ... are decoded and assigned one
\* after the other, tile i at subgrid_start_indices[i] - origin. A cell ends
\* up holding what the last tile assigned over it put there. The loop stops
\* at the first step that raises. [err, value, decodes].
StepError(obj, f, sh, origin, i) ==
    IF i \notin DOMAIN obj.subgrid_shapes THEN "IndexError"
    ELSE IF iloc_subgrid(obj, f, i).err # "none" THEN iloc_subgrid(obj, f, i).err
    ELSE IF BlockBad(sh, [a \in 1 .. 3 |-> obj.subgrid_start_indices[i][a] - origin[a]],
                     obj.subgrid_shapes[i])
    THEN "ValueError"
    ELSE "none"

AssembledCell(obj, f, sh, order, origin, fill, c) ==
    LET xyz == Coord(sh, c)
        st(i) == [a \in 1 .. 3 |-> obj.subgrid_start_indices[i][a] - origin[a]]
        ks == {k \in 1 .. Len(order) :
                 BlockCovers(sh, st(order[k]), obj.subgrid_shapes[order[k]], xyz)}
    IN  IF ks = {} THEN fill
        ELSE LET i == order[SetMax(ks)]
                 lo == BlockLo(sh, st(i), obj.subgrid_shapes[i])
             IN  iloc_subgrid(obj, f, i).value.data[
                     Lin(obj.subgrid_shapes[i], xyz[1] - lo[1], xyz[2] - lo[2],
                         xyz[3] - lo[3])]

AssembleWith(obj, f, sh, order, origin, fill, failing) ==
    IF failing # {}
    THEN [err |-> StepError(obj, f, sh, origin, order[SetMin(failing)]),
          value |-> EmptyArray,
          decodes |-> IF order[SetMin(failing)] \notin DOMAIN obj.subgrid_shapes
                      THEN SetMin(failing) - 1 ELSE SetMin(failing)]
    ELSE [err |-> "none",
          value |-> [shape |-> sh,
                     data |-> [c \in 0 .. (Cells(sh) - 1) |->
                        AssembledCell(obj, f, sh, order, origin, fill, c)]],
          decodes |-> Len(order)]

AssembleOrdered(obj, f, sh, order, origin, fill) ==
    CHOOSE r \in {AssembleWith(obj, f, sh, order, origin, fill, failing) : failing \in
        {{k \in 1 .. Len(order) : StepError(obj, f, sh, origin, order[k]) # "none"}}} :
        TRUE

Assemble(obj, f, sh, order, origin, fill) ==
    CHOOSE r \in {AssembleOrdered(obj, f, sh, ord, org, fill) :
                    ord \in {order}, org \in {origin}} : TRUE

\* ------------------------------------------------------------ read_all_subgrids
NoValue == [kind |-> "none"]

Modes == {"flat", "tiled", "full"}

\* Lines 262-264: the decoded tiles in index order (a sequence), or the
\* first failure; decodes counts the iloc_subgrid calls made.
DecodeLoopWith(obj, f, failing) ==
    IF failing # {}
    THEN [err |-> iloc_subgrid(obj, f, SetMin(failing)).err, items |-> <<>>,
          decodes |-> SetMin(failing) + 1]
    ELSE [err |-> "none",
          items |-> [k \in 1 .. obj.header.n_subgrids |-> iloc_subgrid(obj, f, k - 1).value],
          decodes |-> obj.header.n_subgrids]

DecodeLoop(obj, f) ==
    CHOOSE r \in {DecodeLoopWith(obj, f, failing) : failing \in
        {{i \in 0 .. (obj.header.n_subgrids - 1) : iloc_subgrid(obj, f, i).err # "none"}}} :
        TRUE

\* np.array(all_data, dtype=object) for a list of 3-d arrays. Equal shapes
\* give one (n, sx, sy, sz) array of numbers; arrays that differ in their
\* first extent give a 1-d array of n arrays; arrays that agree in the first
\* extent and differ in a later one make numpy raise. The result is given by
\* its number of elements and its elements in C order.
AllSameShape(items) == \A i \in 1 .. Len(items) : items[i].shape = items[1].shape
AllSameFirst(items) == \A i \in 1 .. Len(items) : items[i].shape[1] = items[1].shape[1]

Scalar(v) == [shape |-> <<>>, data |-> [c \in {0} |-> v]]

\* Element t (C order) of the (n, sx, sy, sz) array built from equal shapes.
StackedScalar(items, t) ==
    LET sh == items[1].shape
        cells == Cells(sh)
        w == t % cells
        i == w \div (sh[2] * sh[3])
        j == (w \div sh[3]) % sh[2]
        k == w % sh[3]
    IN  Scalar(items[(t \div cells) + 1].data[Lin(sh, i, j, k)])

NpObjectArray(items) ==
    IF Len(items) = 0 THEN [err |-> "none", size |-> 0, elems |-> <<>>]
    ELSE IF AllSameShape(items)
    THEN [err |-> "none", size |-> Len(items) * Cells(items[1].shape),
          elems |-> [t \in 0 .. ((Len(items) * Cells(items[1].shape)) - 1) |->
                        StackedScalar(items, t)]]
    ELSE IF AllSameFirst(items)
    THEN [err |-> "ValueError", size |-> 0, elems |-> <<>>]
    ELSE [err |-> "none", size |-> Len(items),
          elems |-> [t \in 0 .. (Len(items) - 1) |-> items[t + 1]]]

\* Faulty variant of TiledEntry: the container is indexed in Fortran order.
TiledEntryFortran(container, pp, qq, rr) ==
    container.items[pp + (container.shape[1] * qq)
                    + (container.shape[1] * container.shape[2] * rr)]

\* container[pp, qq, rr] of a reshaped array: reshape keeps the elements in
\* C order (last index fastest).
TiledEntry(container, pp, qq, rr) ==
    container.items[(((pp * container.shape[2]) + qq) * container.shape[3]) + rr]

\* Lines 266-267: .reshape(tiled_shape) of the object array a.
Reshape(a, shape) ==
    IF a.err # "none" THEN [err |-> a.err, value |-> NoValue]
    ELSE IF a.size # Prod3(shape) THEN [err |-> "ValueError", value |-> NoValue]
    ELSE [err |-> "none",
          value |-> [kind |-> "tiled", shape |-> shape, items |-> a.elems]]

\* Lines 261-267, given the outcome l of the decoding loop.
ListResult(obj, mode, l) ==
    IF l.err # "none"
    THEN [err |-> l.err, value |-> NoValue, decodes |-> l.decodes]
    ELSE IF mode = "tiled"
    THEN CHOOSE r \in {[err |-> t.err, value |-> t.value, decodes |-> l.decodes] : t \in
            {Reshape(NpObjectArray(l.items),
                     <<obj.header.p, obj.header.q, obj.header.r>>)}} : TRUE
    ELSE [err |-> "none",
          value |-> [kind |-> "flat",
                     items |-> [i \in 0 .. (Len(l.items) - 1) |-> l.items[i + 1]]],
          decodes |-> l.decodes]

\* Lines 268-276, given the outcome l of the assembly loop.
FullResult(l) ==
    IF l.err # "none"
    THEN [err |-> l.err, value |-> NoValue, decodes |-> l.decodes]
    ELSE [err |-> "none",
          value |-> [kind |-> "full", shape |-> l.value.shape, data |-> l.value.data],
          decodes |-> l.decodes]

\* Faulty variant of read_all_subgrids: the mode is tested only after the tiles were
\* decoded.
read_all_subgrids_late_check(obj, f, mode, fill) ==
    IF mode \notin Modes
    THEN [err |-> "Exception", value |-> NoValue, decodes |-> DecodeLoop(obj, f).decodes]
    ELSE [err |-> DecodeLoop(obj, f).err, value |-> NoValue,
          decodes |-> DecodeLoop(obj, f).decodes]

\* read_all_subgrids(mode): [err, value, decodes]. fill is the content of
\* the memory np.empty hands out.
read_all_subgrids(obj, f, mode, fill) ==
    IF mode \notin Modes
    THEN [err |-> "Exception", value |-> NoValue, decodes |-> 0]
    ELSE IF mode \in {"flat", "tiled"}
    THEN CHOOSE r \in {ListResult(obj, mode, l) : l \in {DecodeLoop(obj, f)}} : TRUE
    ELSE IF "chunks" \notin obj.attrs
    THEN [err |-> "AttributeError", value |-> NoValue, decodes |-> 0]
    ELSE FullResult(Assemble(obj, f, <<obj.header.nx, obj.header.ny, obj.header.nz>>,
                             [k \in 1 .. obj.header.n_subgrids |-> k - 1],
                             <<0, 0, 0>>, fill))

\* ------------------------------------------------------------ read_subarray
\* Lines 154-165: for idx, c in enumerate(coords): if v in c: break. The
\* 0-based index of the first chunk holding v, else of the last chunk.
ChunkIndexOf(cs, v) ==
    LET hits == {i \in 1 .. Len(cs) : \E k \in 1 .. Len(cs[i]) : cs[i][k] = v}
    IN  IF hits = {} THEN Len(cs) - 1 ELSE SetMin(hits) - 1

\* np.unique(np.hstack(coords[lo..hi])): the coordinates of the chunks
\* lo..hi (0-based), sorted, each once.
CoordSet(cs, lo, hi) ==
    UNION {{cs[i + 1][k] : k \in 1 .. Len(cs[i + 1])} : i \in lo .. hi}

SortedSeq(S) ==
    [k \in 1 .. Cardinality(S) |-> CHOOSE v \in S : Cardinality({u \in S : u < v}) = k - 1]

\* np.argwhere(v == coords).flatten()[0], or dflt when that raises.
IndexOr(cs, v, dflt) ==
    LET hits == {k \in 1 .. Len(cs) : cs[k] = v}
    IN  IF hits = {} THEN dflt ELSE SetMin(hits) - 1

\* The request: start indices and lengths; nz_given is FALSE when the caller
\* leaves nz out (None).
EffectiveNz(obj, win) == IF ~win.nz_given \/ win.nz = 0 THEN obj.header.nz ELSE win.nz

\* Lines 146-168: per axis the chunk range <<first, last>>.
ChunkRange(cs, start, end) == <<ChunkIndexOf(cs, start), ChunkIndexOf(cs, end)>>

\* itertools.product(p_subgrids, q_subgrids, r_subgrids) as the sequence of
\* the subgrid indices i = xsg + p*ysg + p*q*zsg (line 190).
ProductOrder(hdr, pr, qr, rr) ==
    LET np == pr[2] - pr[1] + 1
        nq == qr[2] - qr[1] + 1
        nr == rr[2] - rr[1] + 1
    IN  [k \in 1 .. (np * nq * nr) |->
            (pr[1] + ((k - 1) \div (nq * nr)))
            + (hdr.p * (qr[1] + (((k - 1) \div nr) % nq)))
            + (hdr.p * hdr.q * (rr[1] + ((k - 1) % nr)))]

\* Lines 202-233: bounding_data[clip_x, clip_y, clip_z], where a clip bound
\* that is not among the coordinates falls back to 0 for the start, to -1
\* for the end along x and y and to 0 for the end along z.
ClipBounds(xc, yc, zc, win, nz) ==
    [lo |-> <<IndexOr(xc, win.start_x, 0), IndexOr(yc, win.start_y, 0),
              IndexOr(zc, win.start_z, 0)>>,
     hi |-> <<IndexOr(xc, win.start_x + win.nx, 0 - 1),
              IndexOr(yc, win.start_y + win.ny, 0 - 1),
              IndexOr(zc, win.start_z + nz, 0)>>]

Clip(b, clip) ==
    LET st == [a \in 1 .. 3 |-> SliceStart(clip.lo[a], clip.hi[a], b.shape[a])]
        sh == <<SliceLen(clip.lo[1], clip.hi[1], b.shape[1]),
                SliceLen(clip.lo[2], clip.hi[2], b.shape[2]),
                SliceLen(clip.lo[3], clip.hi[3], b.shape[3])>>
    IN  [kind |-> "subarray", shape |-> sh,
         data |-> [c \in 0 .. (Cells(sh) - 1) |->
            b.data[Lin(b.shape, st[1] + Coord(sh, c)[1], st[2] + Coord(sh, c)[2],
                       st[3] + Coord(sh, c)[3])]]]

SubarrayResult(l, clip) ==
    IF l.err # "none"
    THEN [err |-> l.err, value |-> NoValue, decodes |-> l.decodes]
    ELSE [err |-> "none", value |-> Clip(l.value, clip), decodes |-> l.decodes]

\* Lines 170-233, given the coordinates xc, yc, zc of the chosen chunks.
ReadSubarrayWith(obj, f, win, fill, pr, qr, rr, xc, yc, zc) ==
    IF Len(xc) = 0 \/ Len(yc) = 0 \/ Len(zc) = 0
    THEN [err |-> "ValueError", value |-> NoValue, decodes |-> 0]
    ELSE CHOOSE o \in {SubarrayResult(l, ClipBounds(xc, yc, zc, win, EffectiveNz(obj, win))) :
            l \in {Assemble(obj, f, <<Len(xc), Len(yc), Len(zc)>>,
                            ProductOrder(obj.header, pr, qr, rr),
                            <<xc[1], yc[1], zc[1]>>, fill)}} : TRUE

\* Lines 167-173, given the chunk ranges pr, qr, rr: an empty range leaves
\* np.hstack nothing to concatenate.
ReadSubarrayIn(obj, f, win, fill, pr, qr, rr) ==
    IF pr[2] < pr[1] \/ qr[2] < qr[1] \/ rr[2] < rr[1]
    THEN [err |-> "ValueError", value |-> NoValue, decodes |-> 0]
    ELSE CHOOSE o \in {ReadSubarrayWith(obj, f, win, fill, pr, qr, rr, xc, yc, zc) :
            xc \in {SortedSeq(CoordSet(obj.coords.x, pr[1], pr[2]))},
            yc \in {SortedSeq(CoordSet(obj.coords.y, qr[1], qr[2]))},
            zc \in {SortedSeq(CoordSet(obj.coords.z, rr[1], rr[2]))}} : TRUE

\* read_subarray(start_x, start_y, start_z, nx, ny, nz): [err, value, decodes].
read_subarray(obj, f, win, fill) ==
    IF "coords" \notin obj.attrs
    THEN [err |-> "AttributeError", value |-> NoValue, decodes |-> 0]
    ELSE IF Len(obj.coords.x) = 0 \/ Len(obj.coords.y) = 0 \/ Len(obj.coords.z) = 0
    THEN [err |-> "UnboundLocalError", value |-> NoValue, decodes |-> 0]
    ELSE CHOOSE o \in {ReadSubarrayIn(obj, f, win, fill, pr, qr, rr) :
           pr \in {ChunkRange(obj.coords.x, win.start_x, win.start_x + win.nx)},
           qr \in {ChunkRange(obj.coords.y, win.start_y, win.start_y + win.ny)},
           rr \in {ChunkRange(obj.coords.z, win.start_z,
                              win.start_z + EffectiveNz(obj, win))}} : TRUE

\* ------------------------------------------------------------ read_pfb, read_stack_of_pfbs
\* read_pfb(file, mode): [err, value, decodes, leaked]; leaked counts the
\* file objects the call opened and did not close (lines 7-11).
ReadPfbOutcome(r) ==
    IF r.err # "none"
    THEN [err |-> r.err, value |-> NoValue, decodes |-> r.decodes, leaked |-> 1]
    ELSE [err |-> "none", value |-> r.value, decodes |-> r.decodes, leaked |-> 0]

ReadPfbWith(c, f, mode, fill) ==
    IF c.err # "none"
    THEN [err |-> c.err, value |-> NoValue, decodes |-> 0, leaked |-> 1]
    ELSE CHOOSE o \in {ReadPfbOutcome(r) : r \in
            {read_all_subgrids(c.obj, f, mode, fill)}} : TRUE

read_pfb(f, mode, fill) ==
    CHOOSE o \in {ReadPfbWith(c, f, mode, fill) : c \in {ConstructFromFile(f)}} : TRUE

\* Lines 25-29: a sibling object that is handed the first file's header and
\* tables instead of computing its own.
SiblingObject(init) ==
    [ConstructWithHeader(init.header, FALSE).obj EXCEPT
        !.attrs = @ \cup TableAttrs,
        !.subgrid_offsets = init.subgrid_offsets,
        !.subgrid_locations = init.subgrid_locations,
        !.subgrid_start_indices = init.subgrid_start_indices,
        !.subgrid_shapes = init.subgrid_shapes]

\* Lines 22-32 for n copies of one file: every pass of the loop reads the
\* same bytes through an equal sibling, so r, the outcome of
\* read_all_subgrids on the sibling, is the outcome of each pass; the first
\* pass that raises ends the call with its object still open.
StackOutcome(hdr, n, r) ==
    IF r.err # "none"
    THEN [err |-> r.err, value |-> NoValue, decodes |-> r.decodes, leaked |-> 1]
    ELSE [err |-> "none",
          value |-> [kind |-> "stack", shape |-> <<n, hdr.nx, hdr.ny, hdr.nz>>,
                     slices |-> [i \in 0 .. (n - 1) |-> r.value]],
          decodes |-> n * r.decodes, leaked |-> 0]

StackPass(hdr, sib, f, n, fill) ==
    CHOOSE o \in {StackOutcome(hdr, n, r) : r \in
        {read_all_subgrids(sib, f, "full", fill)}} : TRUE

ReadStackWith(c, f, n, fill) ==
    IF c.err # "none"
    THEN [err |-> c.err, value |-> NoValue, decodes |-> 0, leaked |-> 1]
    ELSE CHOOSE o \in {StackPass(c.obj.header, sib, f, n, fill) : sib \in
            {SiblingObject(c.obj)}} : TRUE

\* read_stack_of_pfbs(file_seq) for file_seq = n copies of f.
read_stack_of_pfbs(f, n, fill) ==
    IF n = 0
    THEN [err |-> "IndexError", value |-> NoValue, decodes |-> 0, leaked |-> 0]
    ELSE CHOOSE o \in {ReadStackWith(c, f, n, fill) : c \in {ConstructFromFile(f)}} : TRUE

\* The calls of precalculate_subgrid_info in read_stack_of_pfbs: the one of
\* pfb_init (line 15) and those of the siblings built before the first pass
\* that raises (line 25).
StackPrecalcs(f, n) ==
    IF n = 0 \/ ConstructFromFile(f).err # "none" THEN 0
    ELSE PrecalcCalls(TRUE)
         + ((IF read_all_subgrids(SiblingObject(ConstructFromFile(f).obj), f, "full", 0).err
                = "none" THEN n ELSE 1) * PrecalcCalls(FALSE))

\* ------------------------------------------------------------ the state machine
\* Lengths of the lists handed to read_stack_of_pfbs.
MaxStack == 2

\* What np.empty may hold: a value no cell has, and the value of cell (0,0,0).
FillValues == {0, 1}

ModeInputs == Modes \cup {"bogus"}

\* np.empty is called in 'full' mode alone.
FillsFor(mode) == IF mode = "full" THEN FillValues ELSE {0}

\* The well-formed files: every extent and every partition within it.
WellFormed ==
    {[nx |-> a, ny |-> b, nz |-> c, P |-> pp, Q |-> qq, R |-> rr, cut |-> 0] :
        a \in 1 .. MaxNx, b \in 1 .. MaxNy, c \in 1 .. MaxNz,
        pp \in 1 .. MaxNx, qq \in 1 .. MaxNy, rr \in 1 .. MaxNz}

\* Files cut short: inside the global header, inside the first local header,
\* inside the payload.
Truncated ==
    {[nx |-> 1, ny |-> 1, nz |-> 1, P |-> 1, Q |-> 1, R |-> 1, cut |-> k] :
        k \in {10, 20, 26}}

Files == {w \in WellFormed : w.P <= w.nx /\ w.Q <= w.ny /\ w.R <= w.nz} \cup Truncated

\* The windows asked of read_subarray on a grid of extents (nx, ny, nz): on
\* every axis a start and a length inside the grid (nz also left out), and the
\* requests that are malformed on one axis: a start before or beyond the
\* grid, a negative length.
GoodAxis(n) == {<<st, len>> : st \in 0 .. (n - 1), len \in 1 .. n} 
BadAxis(n) == {<<0 - 1, 1>>, <<n, 1>>, <<0, 0 - 1>>}

Window(x, y, z, given) ==
    [start_x |-> x[1], start_y |-> y[1], start_z |-> z[1],
     nx |-> x[2], ny |-> y[2], nz |-> z[2], nz_given |-> given]

Windows(hdr) ==
    {Window(x, y, z, TRUE) :
        x \in {g \in GoodAxis(hdr.nx) : g[1] + g[2] <= hdr.nx},
        y \in {g \in GoodAxis(hdr.ny) : g[1] + g[2] <= hdr.ny},
        z \in {g \in GoodAxis(hdr.nz) : g[1] + g[2] <= hdr.nz}}
    \cup {Window(x, y, <<sz, 0>>, FALSE) :
        x \in {g \in GoodAxis(hdr.nx) : g[1] + g[2] <= hdr.nx},
        y \in {g \in GoodAxis(hdr.ny) : g[1] + g[2] <= hdr.ny},
        sz \in 0 .. (hdr.nz - 1)}
    \cup {Window(x, <<0, hdr.ny>>, <<0, hdr.nz>>, TRUE) : x \in BadAxis(hdr.nx)}
    \cup {Window(<<0, hdr.nx>>, y, <<0, hdr.nz>>, TRUE) : y \in BadAxis(hdr.ny)}
    \cup {Window(<<0, hdr.nx>>, <<0, hdr.ny>>, z, TRUE) : z \in BadAxis(hdr.nz)}

NoWindow == Window(<<0, 0>>, <<0, 0>>, <<0, 0>>, FALSE)

NoFile == [nx |-> 0, ny |-> 0, nz |-> 0, P |-> 0, Q |-> 0, R |-> 0, cut |-> 0]

NoRequest == [offset |-> 0, count |-> 0]

\* The record of a call: its operation and arguments, its outcome (err,
\* value), and what it did on the way: tiles decoded, file objects left
\* open, the np.memmap request of a single-tile read, and the calls of
\* precalculate_subgrid_info.
NoCall ==
    [op |-> "none", mode |-> "", n |-> 0, win |-> NoWindow, idx |-> 0, loc |-> <<0, 0, 0>>,
     err |-> "none", value |-> NoValue, decodes |-> 0, leaked |-> 0,
     request |-> NoRequest, precalcs |-> 0]

Init ==
    /\ written \in Files
    /\ file = BuildFile(written)
    /\ pfb = NoObject
    /\ open_files = 0
    /\ last = NoCall

\* No call is under way: the caller has taken the outcome of the last one.
Idle == last.op = "none"

\* The caller takes the outcome of the call (its value or its exception).
Return ==
    /\ ~Idle
    /\ last' = NoCall
    /\ UNCHANGED <<file, written, pfb, open_files>>

\* pfb = ParflowBinary(file)
Open ==
    /\ Idle
    /\ ~pfb.f_open
    /\ open_files + 1 <= MaxOpenFiles
    /\ \E c \in {ConstructFromFile(file)} :
           /\ pfb' = IF c.err = "none" THEN c.obj ELSE pfb
           /\ open_files' = open_files + 1
           /\ last' = [NoCall EXCEPT !.op = "open", !.err = c.err,
                                     !.leaked = IF c.err = "none" THEN 0 ELSE 1,
                                     !.precalcs = IF c.err = "none"
                                                  THEN PrecalcCalls(TRUE) ELSE 0]
    /\ UNCHANGED <<file, written>>

\* pfb.close()
Close ==
    /\ Idle
    /\ pfb.f_open
    /\ pfb' = [pfb EXCEPT !.f_open = FALSE]
    /\ open_files' = open_files - 1
    /\ last' = [NoCall EXCEPT !.op = "close"]
    /\ UNCHANGED <<file, written>>

\* pfb.read_all_subgrids(mode)
ReadAllSubgrids ==
    /\ Idle
    /\ pfb.exists
    /\ \E mode \in ModeInputs : \E fill \in FillsFor(mode) :
         \E r \in {read_all_subgrids(pfb, file, mode, fill)} :
             last' = [NoCall EXCEPT !.op = "read_all_subgrids", !.mode = mode,
                                    !.err = r.err, !.value = r.value,
                                    !.decodes = r.decodes]
    /\ UNCHANGED <<file, written, pfb, open_files>>

\* The outcome of a single-tile read as a call record.
TileCall(op, idx, loc, r) ==
    [NoCall EXCEPT !.op = op, !.idx = idx, !.loc = loc, !.err = r.err,
                   !.value = IF r.err = "none"
                             THEN [kind |-> "tile", shape |-> r.value.shape,
                                   data |-> r.value.data]
                             ELSE NoValue,
                   !.decodes = IF idx \in DOMAIN pfb.subgrid_offsets THEN 1 ELSE 0,
                   !.request = IF idx \in DOMAIN pfb.subgrid_offsets
                               THEN MemmapRequest(pfb, idx) ELSE NoRequest]

\* pfb.iloc_subgrid(idx) on an open object, idx = n_subgrids included
IlocSubgrid ==
    /\ Idle
    /\ pfb.f_open
    /\ \E idx \in 0 .. pfb.header.n_subgrids :
         \E r \in {iloc_subgrid(pfb, file, idx)} :
             last' = TileCall("iloc_subgrid", idx, <<0, 0, 0>>, r)
    /\ UNCHANGED <<file, written, pfb, open_files>>

\* pfb.loc_subgrid(pp, qq, rr) on an open object, for every location of the
\* partition
LocSubgrid ==
    /\ Idle
    /\ pfb.f_open
    /\ \E pp \in 0 .. (pfb.header.p - 1), qq \in 0 .. (pfb.header.q - 1),
          rr \in 0 .. (pfb.header.r - 1) :
         \E r \in {loc_subgrid(pfb, file, pp, qq, rr)} :
             last' = TileCall("loc_subgrid", LocIndex(pfb.header, pp, qq, rr),
                              <<pp, qq, rr>>, r)
    /\ UNCHANGED <<file, written, pfb, open_files>>

\* Faulty variant of ReadSubarray: the subtraction of the union's minimum
\* (lines 195-197) acts on the rows of subgrid_start_indices in place.
ReadSubarrayInPlace ==
    /\ Idle
    /\ pfb.f_open
    /\ \E win \in Windows(pfb.header), fill \in FillValues :
         \E r \in {read_subarray(pfb, file, win, fill)} :
             /\ last' = [NoCall EXCEPT !.op = "read_subarray", !.win = win,
                                       !.err = r.err, !.value = r.value,
                                       !.decodes = r.decodes]
             /\ pfb' = [pfb EXCEPT !.subgrid_start_indices =
                          [s \in DOMAIN @ |->
                              <<Max(0, @[s][1] - Max(0, win.start_x)),
                                Max(0, @[s][2] - Max(0, win.start_y)),
                                Max(0, @[s][3] - Max(0, win.start_z))>>]]
    /\ UNCHANGED <<file, written, open_files>>

\* pfb.read_subarray(start_x, start_y, start_z, nx, ny, nz) on an open object
ReadSubarray ==
    /\ Idle
    /\ pfb.f_open
    /\ \E win \in Windows(pfb.header), fill \in FillValues :
         \E r \in {read_subarray(pfb, file, win, fill)} :
             last' = [NoCall EXCEPT !.op = "read_subarray", !.win = win,
                                    !.err = r.err, !.value = r.value,
                                    !.decodes = r.decodes]
    /\ UNCHANGED <<file, written, pfb, open_files>>

\* read_pfb(file, mode)
ReadPfb ==
    /\ Idle
    /\ \E mode \in ModeInputs : \E fill \in FillsFor(mode) :
         \E r \in {read_pfb(file, mode, fill)} :
             /\ open_files + r.leaked <= MaxOpenFiles
             /\ open_files' = open_files + r.leaked
             /\ last' = [NoCall EXCEPT !.op = "read_pfb", !.mode = mode,
                                       !.err = r.err, !.value = r.value,
                                       !.decodes = r.decodes, !.leaked = r.leaked]
    /\ UNCHANGED <<file, written, pfb>>

\* read_stack_of_pfbs([file] * n)
ReadStackOfPfbs ==
    /\ Idle
    /\ \E n \in 0 .. MaxStack, fill \in FillValues :
         \E r \in {read_stack_of_pfbs(file, n, fill)} :
             /\ open_files + r.leaked <= MaxOpenFiles
             /\ open_files' = open_files + r.leaked
             /\ last' = [NoCall EXCEPT !.op = "read_stack_of_pfbs", !.n = n,
                                       !.err = r.err, !.value = r.value,
                                       !.decodes = r.decodes, !.leaked = r.leaked,
                                       !.precalcs = StackPrecalcs(file, n)]
    /\ UNCHANGED <<file, written, pfb>>

\* The object API: one ParflowBinary object, opened, read and closed.
Next ==
    Open \/ Close \/ ReadAllSubgrids \/ ReadSubarray \/ IlocSubgrid \/ LocSubgrid \/ Return

Spec == Init /\ [][Next]_vars

\* The module-level functions, which open and close objects of their own.
NextFiles == ReadPfb \/ ReadStackOfPfbs \/ Return

SpecFiles == Init /\ [][NextFiles]_vars

\* ------------------------------------------------------------ the geometry alone
\* The headers handed to the constructor: every extent and every partition
\* of it, with n_subgrids = p*q*r.
GeomHeaders ==
    {[nx |-> a, ny |-> b, nz |-> c, n_subgrids |-> pp * qq * rr,
      p |-> pp, q |-> qq, r |-> rr] :
        a \in 1 .. GeomMaxX, b \in 1 .. GeomMaxY, c \in 1 .. GeomMaxZ,
        pp \in 1 .. GeomMaxParts, qq \in 1 .. GeomMaxParts, rr \in 1 .. GeomMaxParts}

InitGeom ==
    /\ written = NoFile
    /\ file = <<>>
    /\ pfb = NoObject
    /\ open_files = 0
    /\ last = NoCall

\* pfb = ParflowBinary(file, header=hdr): the tables are computed from the
\* header alone.
OpenWithHeader ==
    /\ Idle
    /\ ~pfb.exists
    /\ \E hdr \in GeomHeaders :
         /\ hdr.p <= hdr.nx /\ hdr.q <= hdr.ny /\ hdr.r <= hdr.nz
         /\ pfb' = ConstructWithHeader(hdr, TRUE).obj
    /\ open_files' = open_files + 1
    /\ last' = [NoCall EXCEPT !.op = "open"]
    /\ UNCHANGED <<file, written>>

NextGeom == OpenWithHeader \/ Close \/ Return

SpecGeom == InitGeom /\ [][NextGeom]_vars

\* ------------------------------------------------------------ properties
HasTables == pfb.exists /\ "subgrid_shapes" \in pfb.attrs

Subgrids == DOMAIN pfb.subgrid_shapes

Extent(axis) == <<pfb.header.nx, pfb.header.ny, pfb.header.nz>>[axis]
Parts(axis) == <<pfb.header.p, pfb.header.q, pfb.header.r>>[axis]

\* Tile t is the neighbour of tile s one position further along axis.
NextAlong(s, t, axis) ==
    /\ pfb.subgrid_locations[t][axis] = pfb.subgrid_locations[s][axis] + 1
    /\ \A b \in (1 .. 3) \ {axis} :
         pfb.subgrid_locations[t][b] = pfb.subgrid_locations[s][b]

\* C1: with p*q*r = n_subgrids, along each axis the tiles' intervals
\* [start, start+shape) begin at 0, abut (the start of position k+1 is the
\* start of position k plus its shape) and end at the axis extent, so that
\* the shapes of positions 0..parts-1 sum to the extent: no gap, no overlap.
C1_TilingExact ==
    HasTables =>
        \A axis \in 1 .. 3 : \A s \in Subgrids :
            /\ pfb.subgrid_locations[s][axis] = 0
                   => pfb.subgrid_start_indices[s][axis] = 0
            /\ \A t \in Subgrids :
                   NextAlong(s, t, axis)
                   => pfb.subgrid_start_indices[t][axis]
                      = pfb.subgrid_start_indices[s][axis] + pfb.subgrid_shapes[s][axis]
            /\ pfb.subgrid_locations[s][axis] = Parts(axis) - 1
                   => pfb.subgrid_start_indices[s][axis] + pfb.subgrid_shapes[s][axis]
                      = Extent(axis)

\* C2: per axis, with base = ceil(extent/parts) and remainder = extent mod
\* parts, the tile at position k has base cells when k < remainder, base - 1
\* when k >= remainder > 0, and base at every position when remainder = 0.
C2_ShapePolicy ==
    HasTables =>
        \A axis \in 1 .. 3 : \A s \in Subgrids :
            LET k == pfb.subgrid_locations[s][axis]
                base == (Extent(axis) + Parts(axis) - 1) \div Parts(axis)
                rem == Extent(axis) % Parts(axis)
            IN  pfb.subgrid_shapes[s][axis]
                = IF rem = 0 THEN base ELSE IF k < rem THEN base ELSE base - 1

\* The scenario of C3: nx=10, ny=10, nz=1, p=2, q=1, r=1, n_subgrids=2.
Scenario10x10 ==
    HasTables /\ pfb.header
        = [nx |-> 10, ny |-> 10, nz |-> 1, n_subgrids |-> 2, p |-> 2, q |-> 1, r |-> 1]

\* offset(s) = offset(s-1) + 36 + 8*cells(s-1) for s >= 1, strictly increasing.
OffsetRecurrence ==
    \A s \in Subgrids :
        s >= 1 =>
            /\ pfb.subgrid_offsets[s]
               = pfb.subgrid_offsets[s - 1] + 36
                 + (8 * pfb.subgrid_shapes[s - 1][1] * pfb.subgrid_shapes[s - 1][2]
                      * pfb.subgrid_shapes[s - 1][3])
            /\ pfb.subgrid_offsets[s] > pfb.subgrid_offsets[s - 1]

\* C3 as stated: the recorded offsets are strictly increasing with
\* offset(0) = 64 and offset(s) = offset(s-1) + 36 + 8*cells(s-1); in the
\* scenario they are 64 and 500.
C3_OffsetsFrom64 ==
    HasTables =>
        /\ pfb.subgrid_offsets[0] = 64
        /\ OffsetRecurrence
        /\ Scenario10x10 => pfb.subgrid_offsets[0] = 64 /\ pfb.subgrid_offsets[1] = 500

\* C3 amended: the recorded offsets are strictly increasing with
\* offset(0) = 100, the first payload byte after the 64-byte global header
\* and the first 36-byte local header, and offset(s) = offset(s-1) + 36 +
\* 8*cells(s-1), cells being the cell count of the shape recorded for the
\* subgrid; in the scenario they are 100 and 536.
C3_OffsetsFrom100 ==
    HasTables =>
        /\ pfb.subgrid_offsets[0] = 100
        /\ OffsetRecurrence
        /\ Scenario10x10 => pfb.subgrid_offsets[0] = 100 /\ pfb.subgrid_offsets[1] = 536

C3_Witness == Scenario10x10 /\ pfb.subgrid_offsets[1] = 536

\* C4: reading a well-formed file back with read_pfb(file, mode='full')
\* returns an array of shape (nx,ny,nz) whose every cell is the cell of the
\* array the file was built from.
C4_RoundTrip ==
    (last.op = "read_pfb" /\ last.mode = "full" /\ written.cut = 0) =>
        /\ last.err = "none"
        /\ last.value.shape = <<written.nx, written.ny, written.nz>>
        /\ last.value.data = InputArray(written).data

\* The request for the whole grid.
FullWindow ==
    [start_x |-> 0, start_y |-> 0, start_z |-> 0, nx |-> pfb.header.nx,
     ny |-> pfb.header.ny, nz |-> pfb.header.nz, nz_given |-> TRUE]

\* C5: read_subarray(0, 0, 0, nx, ny, nz) with the full extents returns an
\* array of the shape and with the cells of read_all_subgrids(mode='full')
\* on the same object.
C5_FullWindowIsFullRead ==
    (last.op = "read_subarray" /\ last.win = FullWindow) =>
        /\ last.err = "none"
        /\ \E fill \in FillValues :
             /\ read_all_subgrids(pfb, file, "full", fill).err = "none"
             /\ last.value.shape = read_all_subgrids(pfb, file, "full", fill).value.shape
             /\ last.value.data = read_all_subgrids(pfb, file, "full", fill).value.data

\* C6: for a valid file f and a non-empty list of repetitions of f,
\* read_stack_of_pfbs completes without error and returns an array of shape
\* (len(list), nx, ny, nz) whose every slice is read_pfb(f, mode='full').
C6_StackOfRepeats ==
    (last.op = "read_stack_of_pfbs" /\ last.n >= 1 /\ written.cut = 0) =>
        /\ last.err = "none"
        /\ last.value.shape = <<last.n, written.nx, written.ny, written.nz>>
        /\ \E fill \in FillValues : \A i \in 0 .. (last.n - 1) :
             /\ last.value.slices[i].shape = read_pfb(file, "full", fill).value.shape
             /\ last.value.slices[i].data = read_pfb(file, "full", fill).value.data

\* C7: read_all_subgrids called with a mode outside flat, tiled, full fails
\* with an error before any tile is decoded (no iloc_subgrid call, hence no
\* read of the file) and leaves the object's header and tables unchanged.
C7_InvalidModeFailsFast ==
    [][(last'.op = "read_all_subgrids" /\ last'.mode \notin {"flat", "tiled", "full"}
        /\ last.op = "none")
       => (last'.err # "none" /\ last'.decodes = 0 /\ pfb' = pfb)]_vars

C7_Witness ==
    /\ last.op = "read_all_subgrids" /\ last.mode = "bogus"
    /\ pfb.f_open /\ HasTables /\ last.err = "Exception"

\* C8: every file object opened inside read_pfb or read_stack_of_pfbs is
\* closed by the time the call returns or raises: no call ends with a file
\* object still open.
C8_NoFileLeftOpen ==
    (last.op \in {"read_pfb", "read_stack_of_pfbs"} => last.leaked = 0) /\ open_files = 0

\* C9: after opening a well-formed file written with partition (P,Q,R)
\* without supplying p, q, r, the derived counts satisfy p*q*r = n_subgrids,
\* i.e. (p,q,r) = (P,Q,R).
C9_DerivedPartition ==
    (pfb.exists /\ written.cut = 0) =>
        /\ pfb.header.p * pfb.header.q * pfb.header.r = pfb.header.n_subgrids
        /\ <<pfb.header.p, pfb.header.q, pfb.header.r>> = <<written.P, written.Q, written.R>>

\* An entry of a container stands for a decoded tile: it is that array, or
\* the bare number of a one-cell tile.
EntryIs(entry, arr) ==
    \/ entry = arr
    \/ entry.shape = <<>> /\ Cells(arr.shape) = 1 /\ entry.data[0] = arr.data[0]

\* C10: in 'tiled' mode read_all_subgrids returns a p x q x r container whose
\* entry [pp,qq,rr] is the decoded array of the subgrid whose partition
\* location is (pp,qq,rr); in 'flat' mode entry i is the decoded array of
\* subgrid i.
C10_TiledByLocation ==
    (last.op = "read_all_subgrids" /\ pfb.f_open /\ written.cut = 0
     /\ last.mode \in {"flat", "tiled"}) =>
        /\ last.err = "none"
        /\ last.mode = "flat" =>
             \A s \in Subgrids : last.value.items[s] = iloc_subgrid(pfb, file, s).value
        /\ last.mode = "tiled" =>
             /\ last.value.shape = <<pfb.header.p, pfb.header.q, pfb.header.r>>
             /\ \A s \in Subgrids :
                  LET l == pfb.subgrid_locations[s]
                  IN  (l[1] < pfb.header.p /\ l[2] < pfb.header.q /\ l[3] < pfb.header.r)
                      => EntryIs(TiledEntry(last.value, l[1], l[2], l[3]),
                                 iloc_subgrid(pfb, file, s).value)

\* A window request that is malformed on some axis: a negative length, or a
\* start index that is negative or not below the grid extent.
Malformed(win) ==
    \/ win.nx < 0 \/ win.ny < 0 \/ (win.nz_given /\ win.nz < 0)
    \/ win.start_x < 0 \/ win.start_y < 0 \/ win.start_z < 0
    \/ win.start_x >= pfb.header.nx \/ win.start_y >= pfb.header.ny
    \/ win.start_z >= pfb.header.nz

\* C11: read_subarray rejects a malformed window request (a negative
\* length, a start index negative or >= the grid extent) with an error before
\* decoding any tile: the call fails, makes no iloc_subgrid call, and never
\* returns an array.
C11_MalformedWindowRejected ==
    (last.op = "read_subarray" /\ written.cut = 0 /\ Malformed(last.win)) =>
        /\ last.err # "none"
        /\ last.decodes = 0
        /\ last.value = NoValue

\* The geometry table of an object: the four lists of compute_subgrid_info
\* and the chunks and coords derived from them.
Tables(obj) ==
    <<obj.subgrid_offsets, obj.subgrid_locations, obj.subgrid_start_indices,
      obj.subgrid_shapes, obj.chunks, obj.coords>>

ReadOps == {"read_all_subgrids", "read_subarray", "iloc_subgrid", "loc_subgrid"}

\* The siblings of read_stack_of_pfbs hold the first object's four lists,
\* and the whole call computes the table once, for the first object.
SiblingsShare ==
    ConstructFromFile(file).err = "none" =>
        /\ Tables(SiblingObject(ConstructFromFile(file).obj))
           = Tables([ConstructFromFile(file).obj EXCEPT
                        !.chunks = NoObject.chunks, !.coords = NoObject.coords])
        /\ \A n \in 1 .. MaxStack : StackPrecalcs(file, n) = 1

\* C12: the geometry table is computed once at open and read-only
\* afterwards: every read_all_subgrids, read_subarray, iloc_subgrid and
\* loc_subgrid call on the object leaves subgrid_offsets, subgrid_locations,
\* subgrid_start_indices, subgrid_shapes, chunks and coords as they were and
\* makes no call of precalculate_subgrid_info; the siblings of
\* read_stack_of_pfbs share the first file's lists without recomputing them.
C12_TablesReadOnly ==
    [][/\ (last.op = "none" /\ last'.op \in ReadOps)
            => (Tables(pfb') = Tables(pfb) /\ last'.precalcs = 0)
       /\ last'.op = "open" => (last'.precalcs <= 1 /\ SiblingsShare)]_vars

C12_Witness ==
    /\ last.op = "read_subarray" /\ last.err = "none" /\ last.decodes >= 2
    /\ HasTables /\ pfb.header.n_subgrids >= 2

\* The cells of the tiles that precede tile s in the file.
RECURSIVE CellsBefore(_)
CellsBefore(s) ==
    IF s = 0 THEN 0 ELSE CellsBefore(s - 1) + Cells(WriterShape(written, s - 1))

\* C13: for every subgrid index s in [0, n_subgrids), iloc_subgrid(s) starts
\* reading at the first byte after tile s's own 36-byte local header, i.e. at
\* 64 + 36*(s+1) + 8*(the cells of the tiles before s), and reads exactly
\* the cells(s) values of tile s, so that it reads no local header and no
\* other tile's bytes.
C13_ReadsOwnPayload ==
    (last.op = "iloc_subgrid" /\ written.cut = 0 /\ last.idx < pfb.header.n_subgrids) =>
        /\ last.request.offset = 64 + (36 * (last.idx + 1)) + (8 * CellsBefore(last.idx))
        /\ last.request.count = Cells(WriterShape(written, last.idx))

\* The linear index of partition location l: pp + p*qq + p*q*rr.
Linear(l) == l[1] + (pfb.header.p * l[2]) + (pfb.header.p * pfb.header.q * l[3])

\* C14: lookup by location and lookup by linear index agree: when p*q*r =
\* n_subgrids, get_subgrid_loc(s) is a location (pp,qq,rr) inside the
\* partition with pp + p*qq + p*q*rr = s for every s in [0, n_subgrids), and
\* loc_subgrid(pp,qq,rr) decodes the subgrid that iloc_subgrid(s) decodes:
\* the same offset and the same shape.
C14_LocAgreesWithIloc ==
    (HasTables /\ pfb.header.p * pfb.header.q * pfb.header.r = pfb.header.n_subgrids) =>
        /\ \A s \in 0 .. (pfb.header.n_subgrids - 1) :
             LET l == get_subgrid_loc(s, pfb.header.p, pfb.header.q, pfb.header.r)
             IN  /\ 0 <= l[1] /\ l[1] < pfb.header.p
                 /\ 0 <= l[2] /\ l[2] < pfb.header.q
                 /\ 0 <= l[3] /\ l[3] < pfb.header.r
                 /\ Linear(l) = s
        /\ last.op = "loc_subgrid" =>
             /\ last.idx \in DOMAIN pfb.subgrid_offsets
             /\ last.request.offset = pfb.subgrid_offsets[Linear(last.loc)]
             /\ pfb.subgrid_shapes[last.idx] = pfb.subgrid_shapes[Linear(last.loc)]

\* A window inside the grid that ends strictly before the grid boundary on
\* every axis, all three lengths given.
Interior(win) ==
    /\ win.nz_given
    /\ win.start_x >= 0 /\ win.nx >= 1 /\ win.start_x + win.nx < pfb.header.nx
    /\ win.start_y >= 0 /\ win.ny >= 1 /\ win.start_y + win.ny < pfb.header.ny
    /\ win.start_z >= 0 /\ win.nz >= 1 /\ win.start_z + win.nz < pfb.header.nz

\* Array a is the window win of array full: a has the requested shape and
\* its cell [i,j,k] is cell [start_x+i, start_y+j, start_z+k] of full.
IsWindowOf(a, win, nz, full) ==
    /\ a.shape = <<win.nx, win.ny, nz>>
    /\ \A c \in 0 .. (Cells(a.shape) - 1) :
         a.data[c] = full.data[Lin(full.shape, win.start_x + Coord(a.shape, c)[1],
                                   win.start_y + Coord(a.shape, c)[2],
                                   win.start_z + Coord(a.shape, c)[3])]

\* C15: for every window with start >= 0, length >= 1 and start + length <
\* extent on each axis, read_subarray returns an array of exactly the
\* requested shape (nx,ny,nz) whose cell [i,j,k] is cell [start_x+i,
\* start_y+j, start_z+k] of read_all_subgrids(mode='full'), whether the
\* window lies in one tile or spans several.
C15_InteriorWindow ==
    (last.op = "read_subarray" /\ written.cut = 0 /\ Interior(last.win)) =>
        /\ last.err = "none"
        /\ \E fill \in FillValues :
             /\ read_all_subgrids(pfb, file, "full", fill).err = "none"
             /\ IsWindowOf(last.value, last.win, last.win.nz,
                           read_all_subgrids(pfb, file, "full", fill).value)

\* C16: when read_subarray is called without a z length, the length along z
\* defaults to the remaining extent from start_z: for every start_z in
\* [0, nz) the window's z end is the grid extent nz (length nz - start_z)
\* and the returned array has nz - start_z cells along z.
C16_DefaultZLength ==
    (last.op = "read_subarray" /\ written.cut = 0 /\ ~last.win.nz_given
     /\ 0 <= last.win.start_z /\ last.win.start_z < pfb.header.nz) =>
        /\ last.win.start_z + EffectiveNz(pfb, last.win) = pfb.header.nz
        /\ last.err = "none"
        /\ last.value.shape[3] = pfb.header.nz - last.win.start_z

====
